---- MODULE Spec2Model ----
(***************************************************************************)
(* Trigram Markov model (src/Markov.py): the linked lists, the training    *)
(* protocol start_input / consume_word / end_input, the finish() pass that *)
(* moves the best bigram/trigram of every list to its head, and the output *)
(* generator.  The driver is src/Tester.py (_consume_text, _build_model).  *)
(*                                                                         *)
(* A LinkedList is modelled with its pointers: `node` holds the Node       *)
(* objects allocated for the list (a node's index is its identity, in      *)
(* allocation order), every Node has a `next` reference, and the list has  *)
(* a `head` reference.  nil is Python's None for a node reference, None is *)
(* Python's None for a word.                                               *)
(***************************************************************************)
EXTENDS Integers, Sequences, FiniteSets, TLC

\* The vocabulary the input documents are drawn from.
Words == {"x", "y", "z", "w"}

\* Python's None in a word slot.
None == "None"

\* Python's None in a node reference (Node.next, LinkedList.head).
nil == 0

\* The identity of the extra Node(None) that lagging_iter() puts before the head.
node_before_head == -1

\* Bounds of the model.
MaxTokens == 6
MaxFinish == 2
MaxRefresh == 3
MaxCorpusTokens == 3
MaxSteps == 7
MaxRunTokens == 4
MaxTwoTokens == 2
MaxAnyCount == 4
MaxUseTokens == 4

VARIABLES
    model,      \* the TrigramModel object: first_words, prev_prev, prev
    pc,         \* where the build is in the usage protocol: "idle", "input", "finished"
    finished,   \* how many times finish() has been called
    docs,       \* the token lists of the documents consumed so far (_consume_text's words)
    words,      \* the tokens of the document being consumed
    gen,        \* the OutputGenerator object, or NoGen
    ret,        \* what the last generate_word() call returned or raised
    out,        \* what the generate_word() calls on gen did (see Call), the last one or all
    gen2,       \* a second OutputGenerator object of the same model, or NoGen
    ret2        \* what the last generate_word() call on gen2 returned or raised

vars == <<model, pc, finished, docs, words, gen, ret, out, gen2, ret2>>

-----------------------------------------------------------------------------
(* Node and LinkedList                                                     *)

\* Node.__init__
Node(data) == [next |-> nil, data |-> data, cnt |-> 0]

\* LinkedList.__init__
LinkedList == [head |-> nil, node |-> <<>>]

\* The loop of LinkedList.__getitem__ from `node` on; fuel bounds the walk by
\* the number of nodes of the list.
RECURSIVE getitem_from(_, _, _, _)
getitem_from(list, node, data, fuel) ==
    IF node = nil \/ fuel = 0 THEN nil
    ELSE IF list.node[node].data = data THEN node
    ELSE getitem_from(list, list.node[node].next, data, fuel - 1)

\* LinkedList.__getitem__: the node holding `data`, or nil.
getitem(list, data) == getitem_from(list, list.head, data, Len(list.node))

\* LinkedList.prepend: the list with a new node before the head; the new node
\* is the head of the result.
prepend(list, data) ==
    [list EXCEPT !.node = Append(@, [Node(data) EXCEPT !.next = list.head]),
                 !.head = Len(list.node) + 1]

\* LinkedList.move_next_to_head, a mutant: the node is relinked before the
\* head but never unlinked from its predecessor.
move_next_to_head_nounlink(list, prev_node) ==
    LET prev_next == IF prev_node = node_before_head THEN list.head
                     ELSE list.node[prev_node].next
    IN  IF prev_node # nil /\ prev_next # list.head
        THEN [list EXCEPT !.node[prev_next].next = list.head, !.head = prev_next]
        ELSE list

\* LinkedList.move_next_to_head, a mutant: never moves anything.
move_next_to_head_nop(list, prev_node) == list

\* LinkedList.move_next_to_head.  The node before the head was made by
\* lagging_iter() with next = head, and the head is not reassigned between
\* lagging_iter() and this call, so its next is list.head.
move_next_to_head(list, prev_node) ==
    LET prev_next == IF prev_node = node_before_head THEN list.head
                     ELSE list.node[prev_node].next
    IN  IF prev_node # nil /\ prev_next # list.head
        THEN LET new_head == prev_next
                 l1 == [list EXCEPT !.node[prev_node].next = list.node[new_head].next]
                 l2 == [l1 EXCEPT !.node[new_head].next = list.head]
             IN  [l2 EXCEPT !.head = new_head]
        ELSE list

-----------------------------------------------------------------------------
(* TrigramModel: counting                                                  *)

\* TrigramModel.__init__
TrigramModel == [first_words |-> <<>>, prev_prev |-> None, prev |-> None]

\* _count_unigram: first_words after the call; the bigram list returned is
\* the entry of `word`.
count_unigram(first_words, word) ==
    LET fw == IF word \in DOMAIN first_words THEN first_words
              ELSE first_words @@ (word :> [head |-> nil, node |-> <<>>, cnt |-> 0])
    IN  [fw EXCEPT ![word].cnt = @ + 1]

\* _count_bigram, a mutant: the bigram is created but not counted.
count_bigram_nocount(bigram_list, word) ==
    IF getitem(bigram_list, word) = nil
    THEN LET l == prepend(bigram_list, word)
         IN  [l EXCEPT !.node[l.head] = [next |-> @.next, data |-> @.data,
                                          cnt |-> @.cnt, child |-> LinkedList]]
    ELSE bigram_list

\* _count_bigram: the bigram list after the call; the trigram list returned
\* is the child of the node of `word`.
count_bigram(bigram_list, word) ==
    LET l == IF getitem(bigram_list, word) = nil
             THEN LET p == prepend(bigram_list, word)
                  IN  [p EXCEPT !.node[p.head] = [next |-> @.next, data |-> @.data,
                                                   cnt |-> @.cnt, child |-> LinkedList]]
             ELSE bigram_list
    IN  [l EXCEPT !.node[getitem(l, word)].cnt = @ + 1]

\* _count_trigram, a mutant: a new node is prepended without the lookup.
count_trigram_nolookup(trigram_list, word) ==
    LET l == prepend(trigram_list, word)
    IN  [l EXCEPT !.node[l.head].cnt = @ + 1]

\* _count_trigram: the trigram list after the call.
count_trigram(trigram_list, word) ==
    LET l == IF getitem(trigram_list, word) = nil THEN prepend(trigram_list, word)
             ELSE trigram_list
    IN  [l EXCEPT !.node[getitem(l, word)].cnt = @ + 1]

-----------------------------------------------------------------------------
(* TrigramModel: the training methods, as functions of the object          *)

\* start_input, a mutant: the first word is counted as a unigram at once.
start_input_counting(self, first_word, second_word) ==
    [self EXCEPT !.first_words = count_unigram(@, first_word),
                 !.prev_prev = first_word, !.prev = second_word]

\* start_input
start_input(self, first_word, second_word) ==
    [self EXCEPT !.prev_prev = first_word, !.prev = second_word]

\* end_input, a mutant: the last word is not counted as a unigram.
end_input_nolast(self) ==
    LET fw1 == count_unigram(self.first_words, self.prev_prev)
        bl1 == count_bigram(fw1[self.prev_prev], self.prev)
    IN  [self EXCEPT !.first_words = [fw1 EXCEPT ![self.prev_prev] = bl1]]

\* end_input
end_input(self) ==
    LET fw1 == count_unigram(self.first_words, self.prev_prev)
        bl1 == count_bigram(fw1[self.prev_prev], self.prev)
        fw2 == [fw1 EXCEPT ![self.prev_prev] = bl1]
    IN  [self EXCEPT !.first_words = count_unigram(fw2, self.prev)]

\* consume_word, a mutant: the window is not advanced.
consume_word_noslide(self, word) ==
    LET fw1 == count_unigram(self.first_words, self.prev_prev)
        bl1 == count_bigram(fw1[self.prev_prev], self.prev)
        bn  == getitem(bl1, self.prev)
        tl1 == count_trigram(bl1.node[bn].child, word)
    IN  [self EXCEPT !.first_words =
                        [fw1 EXCEPT ![self.prev_prev] = [bl1 EXCEPT !.node[bn].child = tl1]]]

\* consume_word
consume_word(self, word) ==
    LET fw1 == count_unigram(self.first_words, self.prev_prev)
        bl1 == count_bigram(fw1[self.prev_prev], self.prev)
        bn  == getitem(bl1, self.prev)
        tl1 == count_trigram(bl1.node[bn].child, word)
    IN  [first_words |-> [fw1 EXCEPT ![self.prev_prev] = [bl1 EXCEPT !.node[bn].child = tl1]],
         prev_prev   |-> self.prev,
         prev        |-> word]

-----------------------------------------------------------------------------
(* TrigramModel.finish                                                     *)

\* What next() on a lagging iterator standing at `node` leaves it at
\* (LinkedListIterator.__next__: self.node = popped.next).
lagging_next(list, node) ==
    IF node = node_before_head THEN list.head ELSE list.node[node].next

\* _update_choice, a mutant: only a strictly greater count is a new best.
update_choice_strict(list, best_choice, new_cnt) ==
    IF new_cnt > best_choice[1]
    THEN <<new_cnt, best_choice[3], lagging_next(list, best_choice[3])>>
    ELSE <<best_choice[1], best_choice[2], lagging_next(list, best_choice[3])>>

\* _update_choice.  best_choice is the Python list [count, node before the
\* best node, lagging iterator] (indices 1, 2, 3 here); the iterator is the
\* node its next() returns.
update_choice(list, best_choice, new_cnt) ==
    IF new_cnt >= best_choice[1]
    THEN <<new_cnt, best_choice[3], lagging_next(list, best_choice[3])>>
    ELSE <<best_choice[1], best_choice[2], lagging_next(list, best_choice[3])>>

\* The inner loop of finish: for thirdWordNode in secondWordNode.child.
RECURSIVE trigram_loop(_, _, _, _)
trigram_loop(list, node, trigram_choice, fuel) ==
    IF node = nil \/ fuel = 0 THEN trigram_choice
    ELSE trigram_loop(list, list.node[node].next,
                      update_choice(list, trigram_choice, list.node[node].cnt), fuel - 1)

\* The body of finish's loop over one bigram node: its trigram list with the
\* best trigram moved to the head.
finish_child(child) ==
    move_next_to_head(child,
        trigram_loop(child, child.head, <<-1, nil, node_before_head>>, Len(child.node))[2])

\* The loop of finish over the bigram nodes of one first word: the list with
\* every child finished, and the bigram choice.
RECURSIVE bigram_loop(_, _, _, _)
bigram_loop(firstWord, node, bigram_choice, fuel) ==
    IF node = nil \/ fuel = 0 THEN <<firstWord, bigram_choice>>
    ELSE LET secondWordNode == firstWord.node[node]
         IN  bigram_loop(
                 [firstWord EXCEPT !.node[node].child = finish_child(secondWordNode.child)],
                 secondWordNode.next,
                 update_choice(firstWord, bigram_choice, secondWordNode.cnt),
                 fuel - 1)

\* The body of finish's outer loop for one first word.
finish_first_word(firstWord) ==
    LET r == bigram_loop(firstWord, firstWord.head, <<-1, nil, node_before_head>>,
                         Len(firstWord.node))
    IN  move_next_to_head(r[1], r[2][2])

\* finish
finish(self) ==
    [self EXCEPT !.first_words = [w \in DOMAIN @ |-> finish_first_word(@[w])]]

-----------------------------------------------------------------------------
(* OutputGenerator.  A method is a function of the object, of the model's  *)
(* hash table and of what random.choice draws; its result is the object    *)
(* after the call and the word returned, or the exception raised.          *)

IndexError == "IndexError"
KeyError == "KeyError"
Raised(word) == word \in {IndexError, KeyError}

\* OutputGenerator.__init__, a mutant: the counter starts at zero.
OutputGenerator_zero(refresh_limit) ==
    [refresh_limit |-> refresh_limit, refresh_cnt |-> 0,
     prev_4 |-> None, prev_3 |-> None, prev_prev |-> None, prev |-> None, made |-> TRUE]

\* OutputGenerator.__init__
OutputGenerator(refresh_limit) ==
    [refresh_limit |-> refresh_limit, refresh_cnt |-> refresh_limit,
     prev_4 |-> None, prev_3 |-> None, prev_prev |-> None, prev |-> None, made |-> TRUE]

\* What choice(tuple(first_words.keys())) can draw; choice raises IndexError
\* on an empty tuple, and then nothing is drawn.
Draws(first_words) == IF DOMAIN first_words = {} THEN {None} ELSE DOMAIN first_words

\* A method's result: the object and the hash table as the call leaves them,
\* the word returned or the exception raised, and the words choice drew.
Result(self, first_words, word, draws) ==
    [self |-> self, first_words |-> first_words, word |-> word, draws |-> draws]

\* _rand_word, a mutant: the counter is reset two above the limit.
rand_word_late(self, first_words, r) ==
    Result([self EXCEPT !.refresh_cnt = self.refresh_limit + 2], first_words,
           IF DOMAIN first_words = {} THEN IndexError ELSE r,
           IF DOMAIN first_words = {} THEN <<>> ELSE <<r>>)

\* _rand_word, a mutant: on an empty hash table None is returned, nothing raised.
rand_word_noraise(self, first_words, r) ==
    Result([self EXCEPT !.refresh_cnt = self.refresh_limit], first_words, r, <<r>>)

\* _rand_word, with r the word that choice draws.
rand_word(self, first_words, r) ==
    Result([self EXCEPT !.refresh_cnt = self.refresh_limit], first_words,
           IF DOMAIN first_words = {} THEN IndexError ELSE r,
           IF DOMAIN first_words = {} THEN <<>> ELSE <<r>>)

\* _best_bigram, a mutant: the entry after the head is returned when there is one.
best_bigram_second(self, first_words, r) ==
    IF self.prev \notin DOMAIN first_words THEN Result(self, first_words, KeyError, <<>>)
    ELSE LET list == first_words[self.prev]
         IN  IF list.head = nil THEN rand_word(self, first_words, r)
             ELSE IF list.node[list.head].next # nil
             THEN Result(self, first_words, list.node[list.node[list.head].next].data, <<>>)
             ELSE Result(self, first_words, list.node[list.head].data, <<>>)

\* _best_bigram, a mutant: the Unigram is fetched with _count_unigram, which
\* counts it (and creates it when it is missing).
best_bigram_counting(self, first_words, r) ==
    LET fw == count_unigram(first_words, self.prev)
        list == fw[self.prev]
        bigram_node == list.head
    IN  IF bigram_node # nil
        THEN Result(self, fw, list.node[bigram_node].data, <<>>)
        ELSE rand_word(self, fw, r)

\* _best_bigram
best_bigram(self, first_words, r) ==
    IF self.prev \notin DOMAIN first_words THEN Result(self, first_words, KeyError, <<>>)
    ELSE LET list == first_words[self.prev]
             bigram_node == list.head
         IN  IF bigram_node # nil
             THEN Result(self, first_words, list.node[bigram_node].data, <<>>)
             ELSE rand_word(self, first_words, r)

\* _best_trigram, a mutant: the trigrams are never used.
best_trigram_skipped(self, first_words, r) == best_bigram(self, first_words, r)

\* _best_trigram
best_trigram(self, first_words, r) ==
    IF self.prev_prev \notin DOMAIN first_words THEN Result(self, first_words, KeyError, <<>>)
    ELSE LET list == first_words[self.prev_prev]
             bigram_node == getitem(list, self.prev)
         IN  IF bigram_node # nil /\ list.node[bigram_node].child.head # nil
             THEN LET child == list.node[bigram_node].child
                  IN  Result(self, first_words, child.node[child.head].data, <<>>)
             ELSE best_bigram(self, first_words, r)

\* The test of generate_word, mutants: only the 2-word cycle, only the 3-word cycle.
cycle_two(self, new_word) ==
    new_word = self.prev_prev /\ self.prev = self.prev_3

cycle_three(self, new_word) ==
    new_word = self.prev_3 /\ self.prev = self.prev_4

\* The test of generate_word for a 2-word or a 3-word cycle.
cycle(self, new_word) ==
    \/ (new_word = self.prev_prev /\ self.prev = self.prev_3)
    \/ (new_word = self.prev_3 /\ self.prev = self.prev_4)

\* generate_word, with r1 and r2 what the first and the second call of choice
\* draw, if they are made.  An exception leaves the method before the counter
\* is decremented and the window shifted.  Besides the result of a method,
\* the record tells what the call did: the word selected before the cycle
\* test (candidate), whether the refresh_cnt <= 0 branch was taken (forced),
\* and whether the cycle test replaced the candidate (cycled).
generate_word(self, first_words, r1, r2) ==
    LET forced == self.refresh_cnt <= 0
        first == IF forced THEN rand_word(self, first_words, r1)
                 ELSE IF self.prev_prev # None THEN best_trigram(self, first_words, r1)
                 ELSE IF self.prev # None THEN best_bigram(self, first_words, r1)
                 ELSE rand_word(self, first_words, r1)
    IN  IF Raised(first.word)
        THEN first @@ [candidate |-> first.word, forced |-> forced, cycled |-> FALSE]
        ELSE LET cycled == cycle(self, first.word)
                 chosen == IF cycled
                           THEN rand_word(first.self, first.first_words, r2)
                           ELSE first
             IN  [self |-> [chosen.self EXCEPT !.refresh_cnt = @ - 1,
                                               !.prev_4 = self.prev_3,
                                               !.prev_3 = self.prev_prev,
                                               !.prev_prev = self.prev,
                                               !.prev = chosen.word],
                  first_words |-> chosen.first_words,
                  word |-> chosen.word,
                  draws |-> IF cycled THEN first.draws \o chosen.draws ELSE first.draws,
                  candidate |-> first.word,
                  forced |-> forced,
                  cycled |-> cycled]

\* What a call record tells: the call drew at random without being forced to
\* by the counter or by the cycle test (the hash table's Bigram container of
\* w[t-1] was empty, or the window was).
Fallback(c) == ~c.forced /\ c.draws # <<>> /\ (c.cycled => Len(c.draws) = 2)

\* The returned word of the call came from a draw of choice.
Random(c) == c.draws # <<>> /\ c.word = c.draws[Len(c.draws)]

-----------------------------------------------------------------------------
(* The driver's loops                                                      *)

\* Tester._consume_text's loop: for i in range(2, len(words)) (Python counts
\* from 0, the sequences here from 1).
RECURSIVE consume_words(_, _, _)
consume_words(self, ws, i) ==
    IF i > Len(ws) THEN self
    ELSE consume_words(consume_word(self, ws[i]), ws, i + 1)

\* Tester._consume_text, on the tokens of one document.
consume_text(self, ws) ==
    end_input(consume_words(start_input(self, ws[1], ws[2]), ws, 3))

-----------------------------------------------------------------------------
(* The build, by the usage protocol of TrigramModel (Markov.py, 105-118)   *)
(* as Tester._consume_text and Tester._build_model drive it.               *)

NoGen == [refresh_limit |-> 0, refresh_cnt |-> 0, prev_4 |-> None, prev_3 |-> None,
          prev_prev |-> None, prev |-> None, made |-> FALSE]

\* The tokens fed so far.
RECURSIVE TotalLen(_)
TotalLen(ds) == IF ds = <<>> THEN 0 ELSE Len(Head(ds)) + TotalLen(Tail(ds))

Tokens == TotalLen(docs) + Len(words)

Init ==
    /\ model = TrigramModel
    /\ pc = "idle"
    /\ finished = 0
    /\ docs = <<>>
    /\ words = <<>>
    /\ gen = NoGen
    /\ ret = None
    /\ out = <<>>
    /\ gen2 = NoGen
    /\ ret2 = None

StartInput ==
    /\ pc = "idle"
    /\ finished = 0
    /\ Tokens + 2 <= MaxTokens
    /\ \E first_word \in Words, second_word \in Words :
          /\ model' = start_input(model, first_word, second_word)
          /\ words' = <<first_word, second_word>>
    /\ pc' = "input"
    /\ UNCHANGED <<finished, docs, gen, ret, out, gen2, ret2>>

ConsumeWord ==
    /\ pc = "input"
    /\ Tokens + 1 <= MaxTokens
    /\ \E word \in Words :
          /\ model' = consume_word(model, word)
          /\ words' = Append(words, word)
    /\ UNCHANGED <<pc, finished, docs, gen, ret, out, gen2, ret2>>

EndInput ==
    /\ pc = "input"
    /\ model' = end_input(model)
    /\ docs' = Append(docs, words)
    /\ words' = <<>>
    /\ pc' = "idle"
    /\ UNCHANGED <<finished, gen, ret, out, gen2, ret2>>

Finish ==
    /\ pc \in {"idle", "finished"}
    /\ finished < MaxFinish
    /\ model' = finish(model)
    /\ finished' = finished + 1
    /\ pc' = "finished"
    /\ UNCHANGED <<docs, words, gen, ret, out, gen2, ret2>>

Next == StartInput \/ ConsumeWord \/ EndInput \/ Finish

Spec == Init /\ [][Next]_vars

-----------------------------------------------------------------------------
(* Generation: Tester._generate_words on the model that _build_model       *)
(* returns, for every corpus of a bounded set.                             *)

\* The documents of at least two tokens and at most k, over the words W.
Documents(W, k) == UNION {[1..n -> W] : n \in 2..k}

\* The corpora (lists of documents) of at most k tokens in all.
RECURSIVE CorporaOf(_, _)
CorporaOf(W, k) ==
    {<<>>} \cup UNION {{<<d>> \o c : c \in CorporaOf(W, k - Len(d))} : d \in Documents(W, k)}

\* The document of the worked example.
Example == <<"x", "y", "z", "x", "y", "w">>

\* The corpora generation is checked on: the short ones over all words, the
\* longer ones over two words, and the worked example.
Corpora ==
    CorporaOf(Words, MaxCorpusTokens)
        \cup CorporaOf({"x", "y"}, MaxCorpusTokens + 2)
        \cup {<<Example>>}

\* Tester._build_model's loop over the files, on their token lists.
RECURSIVE consume_files(_, _)
consume_files(self, files) ==
    IF files = <<>> THEN self
    ELSE consume_files(consume_text(self, Head(files)), Tail(files))

\* Tester._build_model
build_model(files) == finish(consume_files(TrigramModel, files))

InitGen ==
    /\ \E files \in Corpora :
          /\ model = build_model(files)
          /\ docs = files
    /\ pc = "finished"
    /\ finished = 1
    /\ words = <<>>
    /\ gen = NoGen
    /\ ret = None
    /\ out = <<>>
    /\ gen2 = NoGen
    /\ ret2 = None

\* TrigramModel.output_generator
MakeGenerator ==
    /\ pc = "finished"
    /\ ~gen.made
    /\ \E refresh_limit \in 0..MaxRefresh : gen' = OutputGenerator(refresh_limit)
    /\ UNCHANGED <<model, pc, finished, docs, words, ret, out, gen2, ret2>>

\* What the model keeps of a call of generate_word: its result but for the
\* objects.
Call(done) ==
    [word |-> done.word, draws |-> done.draws, candidate |-> done.candidate,
     forced |-> done.forced, cycled |-> done.cycled]

\* One call of generate_word.
GenerateWord ==
    /\ gen.made
    /\ \E r1 \in Draws(model.first_words), r2 \in Draws(model.first_words) :
          LET done == generate_word(gen, model.first_words, r1, r2)
          IN  /\ gen' = done.self
              /\ ret' = done.word
              /\ model' = [model EXCEPT !.first_words = done.first_words]
              /\ out' = <<Call(done)>>
    /\ UNCHANGED <<pc, finished, docs, words, gen2, ret2>>

NextGen == MakeGenerator \/ GenerateWord

SpecGen == InitGen /\ [][NextGen]_vars

-----------------------------------------------------------------------------
(* A run of generation: the loop of Tester._generate_words, with all the   *)
(* calls of the run kept in out.                                           *)

\* The corpora the runs are checked on.
RunCorpora == CorporaOf({"x", "y"}, MaxRunTokens)

InitRun ==
    /\ \E files \in RunCorpora :
          /\ model = build_model(files)
          /\ docs = files
    /\ pc = "finished"
    /\ finished = 1
    /\ words = <<>>
    /\ gen = NoGen
    /\ ret = None
    /\ out = <<>>
    /\ gen2 = NoGen
    /\ ret2 = None

\* One turn of the loop of _generate_words.
RunWord ==
    /\ gen.made
    /\ Len(out) < MaxSteps
    /\ \E r1 \in Draws(model.first_words), r2 \in Draws(model.first_words) :
          LET done == generate_word(gen, model.first_words, r1, r2)
          IN  /\ gen' = done.self
              /\ ret' = done.word
              /\ model' = [model EXCEPT !.first_words = done.first_words]
              /\ out' = Append(out, Call(done))
    /\ UNCHANGED <<pc, finished, docs, words, gen2, ret2>>

NextRun == MakeGenerator \/ RunWord

SpecRun == InitRun /\ [][NextRun]_vars

-----------------------------------------------------------------------------
(* Two generators of one model: output_generator called twice, and the     *)
(* calls of generate_word on the two objects in any order.                 *)

\* A document whose model loops: x y yields x and y x yields y.
Loop == <<"x", "y", "x", "y">>

\* The corpora the two generators are checked on: the short ones over two
\* words, and the document that loops.
TwoCorpora == CorporaOf({"x", "y"}, MaxTwoTokens) \cup {<<Loop>>}

InitTwo ==
    /\ \E files \in TwoCorpora :
          /\ model = build_model(files)
          /\ docs = files
    /\ pc = "finished"
    /\ finished = 1
    /\ words = <<>>
    /\ gen = NoGen
    /\ ret = None
    /\ out = <<>>
    /\ gen2 = NoGen
    /\ ret2 = None

\* TrigramModel.output_generator, the second call.
MakeGenerator2 ==
    /\ pc = "finished"
    /\ ~gen2.made
    /\ \E refresh_limit \in 0..MaxRefresh : gen2' = OutputGenerator(refresh_limit)
    /\ UNCHANGED <<model, pc, finished, docs, words, gen, ret, out, ret2>>

\* One call of generate_word on the second generator.
GenerateWord2 ==
    /\ gen2.made
    /\ \E r1 \in Draws(model.first_words), r2 \in Draws(model.first_words) :
          LET done == generate_word(gen2, model.first_words, r1, r2)
          IN  /\ gen2' = done.self
              /\ ret2' = done.word
              /\ model' = [model EXCEPT !.first_words = done.first_words]
    /\ UNCHANGED <<pc, finished, docs, words, gen, ret, out>>

NextTwo == MakeGenerator \/ MakeGenerator2 \/ GenerateWord \/ GenerateWord2

SpecTwo == InitTwo /\ [][NextTwo]_vars

-----------------------------------------------------------------------------
(* The methods of TrigramModel called in any order.  consume_word and      *)
(* end_input read self.prev_prev and self.prev, which only start_input     *)
(* creates: before it they raise AttributeError and change nothing.        *)

\* The sum of the Unigram counts: how many times a word was counted.
RECURSIVE SumCnt(_, _)
SumCnt(first_words, keys) ==
    IF keys = {} THEN 0
    ELSE LET a == CHOOSE k \in keys : TRUE
         IN  first_words[a].cnt + SumCnt(first_words, keys \ {a})

Counted == SumCnt(model.first_words, DOMAIN model.first_words)

\* The words the calls are made with.
AnyWords == {"x", "y"}

\* pc, docs and words follow the calls as long as they make complete
\* documents (start_input, consume_word any number of times, end_input), as
\* in the build; a training call out of that order sets pc to "any" for good
\* and the two lists are dropped.  finish() is no training call and leaves
\* them alone.
InitAny ==
    /\ model = TrigramModel
    /\ pc = "idle"
    /\ finished = 0
    /\ docs = <<>>
    /\ words = <<>>
    /\ gen = NoGen
    /\ ret = None
    /\ out = <<>>
    /\ gen2 = NoGen
    /\ ret2 = None

OutOfOrder == pc' = "any" /\ docs' = <<>> /\ words' = <<>>

AnyStartInput ==
    /\ \E first_word \in AnyWords, second_word \in AnyWords :
          /\ model' = start_input(model, first_word, second_word)
          /\ IF pc = "idle"
             THEN pc' = "input" /\ words' = <<first_word, second_word>> /\ docs' = docs
             ELSE OutOfOrder
    /\ UNCHANGED <<finished, gen, ret, out, gen2, ret2>>

AnyConsumeWord ==
    /\ model.prev_prev # None
    /\ Counted + 1 <= MaxAnyCount
    /\ \E word \in AnyWords :
          /\ model' = consume_word(model, word)
          /\ IF pc = "input"
             THEN pc' = pc /\ words' = Append(words, word) /\ docs' = docs
             ELSE OutOfOrder
    /\ UNCHANGED <<finished, gen, ret, out, gen2, ret2>>

AnyEndInput ==
    /\ model.prev_prev # None
    /\ Counted + 2 <= MaxAnyCount
    /\ model' = end_input(model)
    /\ IF pc = "input"
       THEN pc' = "idle" /\ docs' = Append(docs, words) /\ words' = <<>>
       ELSE OutOfOrder
    /\ UNCHANGED <<finished, gen, ret, out, gen2, ret2>>

AnyFinish ==
    /\ finished < MaxFinish
    /\ model' = finish(model)
    /\ finished' = finished + 1
    /\ UNCHANGED <<pc, docs, words, gen, ret, out, gen2, ret2>>

NextAny == AnyStartInput \/ AnyConsumeWord \/ AnyEndInput \/ AnyFinish

SpecAny == InitAny /\ [][NextAny]_vars

-----------------------------------------------------------------------------
(* The whole usage protocol (Markov.py, 105-118) on one object: documents  *)
(* fed one after the other, finish(), then output_generator() and the      *)
(* calls of generate_word().                                               *)

UseStartInput ==
    /\ pc = "idle"
    /\ Tokens + 2 <= MaxUseTokens
    /\ \E first_word \in AnyWords, second_word \in AnyWords :
          /\ model' = start_input(model, first_word, second_word)
          /\ words' = <<first_word, second_word>>
    /\ pc' = "input"
    /\ UNCHANGED <<finished, docs, gen, ret, out, gen2, ret2>>

UseConsumeWord ==
    /\ pc = "input"
    /\ Tokens + 1 <= MaxUseTokens
    /\ \E word \in AnyWords :
          /\ model' = consume_word(model, word)
          /\ words' = Append(words, word)
    /\ UNCHANGED <<pc, finished, docs, gen, ret, out, gen2, ret2>>

UseEndInput ==
    /\ pc = "input"
    /\ model' = end_input(model)
    /\ docs' = Append(docs, words)
    /\ words' = <<>>
    /\ pc' = "idle"
    /\ UNCHANGED <<finished, gen, ret, out, gen2, ret2>>

UseFinish ==
    /\ pc = "idle"
    /\ model' = finish(model)
    /\ finished' = finished + 1
    /\ pc' = "finished"
    /\ UNCHANGED <<docs, words, gen, ret, out, gen2, ret2>>

NextUse ==
    \/ UseStartInput \/ UseConsumeWord \/ UseEndInput \/ UseFinish
    \/ MakeGenerator \/ GenerateWord

SpecUse == Init /\ [][NextUse]_vars

-----------------------------------------------------------------------------
(* Reading a model: the entries of a container in list order, the counts   *)

\* LinkedList.__iter__ / LinkedListIterator: the nodes from `node` on, in
\* list order; fuel ends the walk of a list that does not end.
RECURSIVE iter_from(_, _, _)
iter_from(list, node, fuel) ==
    IF node = nil \/ fuel = 0 THEN <<>>
    ELSE <<node>> \o iter_from(list, list.node[node].next, fuel - 1)

\* The nodes of a list from its head; one step more than the list has nodes,
\* so that a walk that comes back to a node shows as a repeated node.
iter(list) == iter_from(list, list.head, Len(list.node) + 1)

Range(s) == {s[i] : i \in 1..Len(s)}

\* The list holds every node allocated for it exactly once and ends.
WellFormed(list) ==
    /\ Len(iter(list)) = Len(list.node)
    /\ Range(iter(list)) = 1..Len(list.node)

\* The words of a container, in list order.
WordsOf(list) == [i \in 1..Len(iter(list)) |-> list.node[iter(list)[i]].data]

\* A sequence without the element x.
RECURSIVE Without(_, _)
Without(s, x) ==
    IF s = <<>> THEN <<>>
    ELSE IF Head(s) = x THEN Without(Tail(s), x)
    ELSE <<Head(s)>> \o Without(Tail(s), x)

HasUnigram(fw, a) == a \in DOMAIN fw
UniCnt(fw, a) == IF HasUnigram(fw, a) THEN fw[a].cnt ELSE 0

HasBigram(fw, a, b) == HasUnigram(fw, a) /\ getitem(fw[a], b) # nil
BigramNode(fw, a, b) == fw[a].node[getitem(fw[a], b)]
BiCnt(fw, a, b) == IF HasBigram(fw, a, b) THEN BigramNode(fw, a, b).cnt ELSE 0

HasTrigram(fw, a, b, c) ==
    HasBigram(fw, a, b) /\ getitem(BigramNode(fw, a, b).child, c) # nil
TriCnt(fw, a, b, c) ==
    IF HasTrigram(fw, a, b, c)
    THEN LET child == BigramNode(fw, a, b).child
         IN  child.node[getitem(child, c)].cnt
    ELSE 0

\* The pairs and the triples of words that have an entry in a model.
BiKeys(fw) ==
    UNION {{<<a, fw[a].node[i].data>> : i \in Range(iter(fw[a]))} : a \in DOMAIN fw}
TriKeys(fw) ==
    UNION {UNION {{<<a, fw[a].node[i].data, fw[a].node[i].child.node[j].data>> :
                      j \in Range(iter(fw[a].node[i].child))} :
                  i \in Range(iter(fw[a]))} : a \in DOMAIN fw}

\* Every container of a model: the bigram list of every unigram and the
\* trigram list of every bigram node.
Containers(fw) ==
    {fw[a] : a \in DOMAIN fw}
        \cup UNION {{fw[a].node[i].child : i \in 1..Len(fw[a].node)} : a \in DOMAIN fw}

\* The greatest count among the entries of a non-empty container.
MaxCnt(list) ==
    CHOOSE m \in {list.node[i].cnt : i \in Range(iter(list))} :
        \A i \in Range(iter(list)) : list.node[i].cnt <= m

\* The entries of a container that hold its greatest count.
Tied(list) == {i \in Range(iter(list)) : list.node[i].cnt = MaxCnt(list)}

Bool(p) == IF p THEN 1 ELSE 0

\* The steps of the build.
IsStartInput == pc = "idle" /\ pc' = "input"
IsConsumeWord == pc = "input" /\ pc' = "input" /\ Len(words') = Len(words) + 1
IsEndInput == pc = "input" /\ pc' = "idle"
IsFinish == finished' = finished + 1

-----------------------------------------------------------------------------
(* C1 *)

HeadIsMax(list) ==
    list.head # nil =>
        \A i \in Range(iter(list)) : list.node[list.head].cnt >= list.node[i].cnt

\* C1: after finish(), in every Unigram's Bigram container and every Bigram's
\* Trigram container the head entry's count is >= the count of every other
\* entry of that container.
MaxHeadInvariant ==
    pc = "finished" => \A list \in Containers(model.first_words) : HeadIsMax(list)

\* A finished model with a container whose head was promoted past an entry
\* created later that holds a smaller count.
MaxHeadWitness ==
    /\ pc = "finished"
    /\ \E list \in Containers(model.first_words) :
          /\ Len(list.node) >= 2
          /\ list.head # Len(list.node)
          /\ list.node[Len(list.node)].cnt < list.node[list.head].cnt

-----------------------------------------------------------------------------
(* The input as the driver saw it: which pair and which triple of words    *)
(* was observed when.                                                      *)

\* The pairs (words[i], words[i+1]) of one document, in the order the model
\* counts them, and the triples.
Bigrams(doc) == [i \in 1..(Len(doc) - 1) |-> <<doc[i], doc[i + 1]>>]
Trigrams(doc) == [i \in 1..(Len(doc) - 2) |-> <<doc[i], doc[i + 1], doc[i + 2]>>]

RECURSIVE AllBigrams(_)
AllBigrams(ds) == IF ds = <<>> THEN <<>> ELSE Bigrams(Head(ds)) \o AllBigrams(Tail(ds))

RECURSIVE AllTrigrams(_)
AllTrigrams(ds) == IF ds = <<>> THEN <<>> ELSE Trigrams(Head(ds)) \o AllTrigrams(Tail(ds))

\* The place of the first x in s.
FirstSeen(s, x) == CHOOSE i \in 1..Len(s) : s[i] = x /\ \A j \in 1..(i - 1) : s[j] # x

\* The place of node x in the list order s.
Pos(s, x) == CHOOSE i \in 1..Len(s) : s[i] = x

-----------------------------------------------------------------------------
(* C2 *)

\* In a container whose context is ctx (<<a>> for the bigrams of a, <<a, b>>
\* for the trigrams of a b), observed in the stream `seen`: if several entries
\* hold the greatest count, the head is the one of them observed first.
OldestTiedIsHead(list, ctx, seen) ==
    (list.head # nil /\ Cardinality(Tied(list)) >= 2) =>
        /\ list.head \in Tied(list)
        /\ \A e \in Tied(list) \ {list.head} :
              FirstSeen(seen, ctx \o <<list.node[list.head].data>>)
                  < FirstSeen(seen, ctx \o <<list.node[e].data>>)

\* C2: when two or more entries of a Bigram or Trigram container share the
\* maximum count, the head after the build's finish() is the entry created
\* first (the word first observed in that context).
TieBreakOldest ==
    (pc = "finished" /\ finished = 1) =>
        \A a \in DOMAIN model.first_words :
            LET bigram_list == model.first_words[a]
            IN  /\ OldestTiedIsHead(bigram_list, <<a>>, AllBigrams(docs))
                /\ \A i \in 1..Len(bigram_list.node) :
                      OldestTiedIsHead(bigram_list.node[i].child,
                                       <<a, bigram_list.node[i].data>>, AllTrigrams(docs))

\* A model finished once with a container of three entries, all tied at the
\* maximum, whose head is the entry created first.
TieBreakWitness ==
    /\ pc = "finished" /\ finished = 1
    /\ \E list \in Containers(model.first_words) :
          /\ Len(list.node) = 3
          /\ Cardinality(Tied(list)) = 3
          /\ list.head = 1

-----------------------------------------------------------------------------
(* C3 *)

\* Every container has the same head and the same entry order in fw2 as in fw.
SameOrder(fw, fw2) ==
    /\ DOMAIN fw2 = DOMAIN fw
    /\ \A a \in DOMAIN fw :
          /\ iter(fw2[a]) = iter(fw[a])
          /\ Len(fw2[a].node) = Len(fw[a].node)
          /\ \A i \in 1..Len(fw[a].node) :
                iter(fw2[a].node[i].child) = iter(fw[a].node[i].child)

\* C3 as stated: a second finish() leaves every container with the same head
\* and the same entry order, ties at the maximum included.
FinishIdempotent ==
    [][(finished >= 1 /\ IsFinish) => SameOrder(model.first_words, model'.first_words)]_vars

\* The entry tied at the maximum that stands last in list order.
LastTied(list) ==
    CHOOSE e \in Tied(list) :
        \A f \in Tied(list) : Pos(iter(list), f) <= Pos(iter(list), e)

\* What one more finish() does to a finished container l1, giving l2.
FinishedAgain(l1, l2) ==
    IF l1.head = nil \/ Cardinality(Tied(l1)) = 1
    THEN iter(l2) = iter(l1)
    ELSE /\ l2.head = LastTied(l1)
         /\ l2.head # l1.head
         /\ l2.node[l2.head].cnt = MaxCnt(l1)
         /\ Without(iter(l2), l2.head) = Without(iter(l1), l2.head)

\* C3, amended: a second finish() leaves a container in which one entry alone
\* holds the maximum count (and every empty container) with the same head and
\* entry order; in a container with several entries tied at the maximum it
\* moves the tied entry nearest the tail to the head, so the head changes to
\* another entry of the same, maximal, count.
FinishIdempotentUnlessTied ==
    [][(finished >= 1 /\ IsFinish) =>
        /\ DOMAIN model'.first_words = DOMAIN model.first_words
        /\ \A a \in DOMAIN model.first_words :
              LET l1 == model.first_words[a]
                  l2 == model'.first_words[a]
              IN  /\ FinishedAgain(l1, l2)
                  /\ Len(l2.node) = Len(l1.node)
                  /\ \A i \in 1..Len(l1.node) :
                        FinishedAgain(l1.node[i].child, l2.node[i].child)]_vars

\* A model finished twice that has a container with entries tied at the
\* maximum and a container of several entries with a single maximum.
FinishTwiceWitness ==
    /\ finished = 2
    /\ \E list \in Containers(model.first_words) : Cardinality(Tied(list)) >= 2
    /\ \E list \in Containers(model.first_words) :
          Len(list.node) >= 2 /\ Cardinality(Tied(list)) = 1

-----------------------------------------------------------------------------
(* C4 *)

\* l2 holds the nodes of l1, each with its word and count, linked into one
\* list that ends, in the order of l1 but for the head of l2.
Repositioned(l1, l2) ==
    /\ Len(l2.node) = Len(l1.node)
    /\ \A i \in 1..Len(l1.node) :
          l2.node[i].data = l1.node[i].data /\ l2.node[i].cnt = l1.node[i].cnt
    /\ WellFormed(l2)
    /\ Range(iter(l2)) = Range(iter(l1))
    /\ Without(iter(l2), l2.head) = Without(iter(l1), l2.head)

\* C4: finish() changes only positions: every container keeps its entries,
\* each with its word, count and nested container; none is lost or
\* duplicated; every list stays acyclic; the Unigram counts and the key set
\* are unchanged; the entries other than the promoted one keep their order.
FinishOnlyRepositions ==
    [][IsFinish =>
        /\ DOMAIN model'.first_words = DOMAIN model.first_words
        /\ model'.prev_prev = model.prev_prev /\ model'.prev = model.prev
        /\ \A a \in DOMAIN model.first_words :
              LET l1 == model.first_words[a]
                  l2 == model'.first_words[a]
              IN  /\ l2.cnt = l1.cnt
                  /\ Repositioned(l1, l2)
                  /\ \A i \in 1..Len(l1.node) :
                        Repositioned(l1.node[i].child, l2.node[i].child)]_vars

\* A finished model in which a bigram list and a trigram list each had an
\* entry promoted past an entry created later.
FinishRepositionsWitness ==
    /\ pc = "finished"
    /\ \E a \in DOMAIN model.first_words :
          /\ Len(model.first_words[a].node) >= 2
          /\ model.first_words[a].head # Len(model.first_words[a].node)
    /\ \E a \in DOMAIN model.first_words :
          \E i \in 1..Len(model.first_words[a].node) :
              LET child == model.first_words[a].node[i].child
              IN  Len(child.node) >= 2 /\ child.head # Len(child.node)

-----------------------------------------------------------------------------
(* C5 *)

\* The containers of fw2 list the words of fw in the same order, but for the
\* bigram q of p and the trigram r of p q, which are put first where new
\* (r = None: no trigram is added).
OnlyPrepended(fw, fw2, p, q, r) ==
    /\ \A a \in DOMAIN fw :
          WordsOf(fw2[a]) =
              IF a = p /\ ~HasBigram(fw, p, q) THEN <<q>> \o WordsOf(fw[a])
              ELSE WordsOf(fw[a])
    /\ \A a \in DOMAIN fw : \A b \in Words :
          HasBigram(fw, a, b) =>
              WordsOf(BigramNode(fw2, a, b).child) =
                  IF a = p /\ b = q /\ r # None /\ ~HasTrigram(fw, p, q, r)
                  THEN <<r>> \o WordsOf(BigramNode(fw, a, b).child)
                  ELSE WordsOf(BigramNode(fw, a, b).child)

\* C5: consume_word(third) with window (p, q) adds one to the Unigram count
\* of p, to the count of Bigram q under p and to the count of Trigram third
\* under (p, q), each created (from count 0) when absent, sets the window to
\* (q, third), and changes no other entry or count.
ConsumeWordCounts ==
    [][IsConsumeWord =>
        LET p == model.prev_prev
            q == model.prev
            third == words'[Len(words')]
            fw == model.first_words
            fw2 == model'.first_words
        IN  /\ model'.prev_prev = q /\ model'.prev = third
            /\ DOMAIN fw2 = DOMAIN fw \cup {p}
            /\ \A a \in Words : UniCnt(fw2, a) = UniCnt(fw, a) + Bool(a = p)
            /\ BiKeys(fw2) = BiKeys(fw) \cup {<<p, q>>}
            /\ \A t \in BiKeys(fw2) :
                  BiCnt(fw2, t[1], t[2]) = BiCnt(fw, t[1], t[2]) + Bool(t = <<p, q>>)
            /\ TriKeys(fw2) = TriKeys(fw) \cup {<<p, q, third>>}
            /\ \A t \in TriKeys(fw2) :
                  TriCnt(fw2, t[1], t[2], t[3])
                      = TriCnt(fw, t[1], t[2], t[3]) + Bool(t = <<p, q, third>>)
            /\ OnlyPrepended(fw, fw2, p, q, third)
            /\ \A list \in Containers(fw2) : WellFormed(list)]_vars

\* consume_word has just counted, for the second time, a trigram of a model
\* that holds three Unigrams.
ConsumeWordWitness ==
    /\ pc = "input" /\ Len(words) >= 3
    /\ LET p == words[Len(words) - 2]
           q == words[Len(words) - 1]
           third == words[Len(words)]
       IN  /\ TriCnt(model.first_words, p, q, third) = 2
           /\ Cardinality(DOMAIN model.first_words) = 3
           /\ model.prev_prev = q /\ model.prev = third

-----------------------------------------------------------------------------
(* C6 *)

\* C6: end_input() with window (p, q) adds one to the Unigram count of p, one
\* to the count of Bigram q under p and one to the Unigram count of q
\* (creating them when absent) and creates or increments no Trigram entry;
\* also right after start_input, where a new Bigram (p, q) is left with an
\* empty Trigram container.
EndInputCounts ==
    [][IsEndInput =>
        LET p == model.prev_prev
            q == model.prev
            fw == model.first_words
            fw2 == model'.first_words
        IN  /\ DOMAIN fw2 = DOMAIN fw \cup {p, q}
            /\ \A a \in Words : UniCnt(fw2, a) = UniCnt(fw, a) + Bool(a = p) + Bool(a = q)
            /\ BiKeys(fw2) = BiKeys(fw) \cup {<<p, q>>}
            /\ \A t \in BiKeys(fw2) :
                  /\ BiCnt(fw2, t[1], t[2]) = BiCnt(fw, t[1], t[2]) + Bool(t = <<p, q>>)
                  /\ t \notin BiKeys(fw) => BigramNode(fw2, t[1], t[2]).child = LinkedList
            /\ TriKeys(fw2) = TriKeys(fw)
            /\ \A t \in TriKeys(fw2) :
                  TriCnt(fw2, t[1], t[2], t[3]) = TriCnt(fw, t[1], t[2], t[3])
            /\ OnlyPrepended(fw, fw2, p, q, None)
            /\ \A list \in Containers(fw2) : WellFormed(list)]_vars

\* end_input has just closed a 2-token document: its bigram is new, has
\* count 1 and an empty Trigram container, and other documents came before.
EndInputWitness ==
    /\ pc = "idle" /\ Len(docs) >= 2
    /\ LET d == docs[Len(docs)]
       IN  /\ Len(d) = 2 /\ d[1] # d[2]
           /\ BiCnt(model.first_words, d[1], d[2]) = 1
           /\ BigramNode(model.first_words, d[1], d[2]).child = LinkedList
           /\ UniCnt(model.first_words, d[2]) >= 2

-----------------------------------------------------------------------------
(* C7 *)

\* The model trained on one document alone.
Alone(doc) == consume_text(TrigramModel, doc).first_words

RECURSIVE Sum(_)
Sum(s) == IF s = <<>> THEN 0 ELSE Head(s) + Sum(Tail(s))

\* C7: counts accumulate across documents and no n-gram spans a document
\* boundary: between documents, and right after start_input (which sets the
\* window and nothing else), the count of every Unigram, Bigram and Trigram is
\* the sum over the documents consumed of its count in the model trained on
\* that document alone, and an entry exists only for a word, pair or triple
\* that occurs inside one document.  (A pair or triple with no entry in the
\* model nor in any model trained alone has count 0 on both sides.)
CountsAccumulate ==
    (finished = 0 /\ Len(words) <= 2) =>
        \A fw \in {model.first_words}, alone \in {[i \in 1..Len(docs) |-> Alone(docs[i])]} :
            /\ Len(words) = 2 => (model.prev_prev = words[1] /\ model.prev = words[2])
            /\ DOMAIN fw = UNION {Range(docs[i]) : i \in 1..Len(docs)}
            /\ \A a \in Words :
                  UniCnt(fw, a) = Sum([i \in 1..Len(docs) |-> UniCnt(alone[i], a)])
            /\ BiKeys(fw) = UNION {Range(Bigrams(docs[i])) : i \in 1..Len(docs)}
            /\ \A t \in BiKeys(fw) \cup UNION {BiKeys(alone[i]) : i \in 1..Len(docs)} :
                  BiCnt(fw, t[1], t[2])
                      = Sum([i \in 1..Len(docs) |-> BiCnt(alone[i], t[1], t[2])])
            /\ TriKeys(fw) = UNION {Range(Trigrams(docs[i])) : i \in 1..Len(docs)}
            /\ \A t \in TriKeys(fw) \cup UNION {TriKeys(alone[i]) : i \in 1..Len(docs)} :
                  TriCnt(fw, t[1], t[2], t[3])
                      = Sum([i \in 1..Len(docs) |-> TriCnt(alone[i], t[1], t[2], t[3])])

\* Two documents were consumed and a third was started: a bigram counted in
\* both documents has count 2, and the words that meet at the boundaries make
\* no Bigram.
CountsAccumulateWitness ==
    /\ pc = "input" /\ Len(words) = 2 /\ Len(docs) = 2
    /\ \E a \in Words, b \in Words :
          /\ BiCnt(model.first_words, a, b) = 2
          /\ BiCnt(Alone(docs[1]), a, b) = 1
    /\ ~HasBigram(model.first_words, docs[1][Len(docs[1])], docs[2][1])
    /\ ~HasBigram(model.first_words, docs[2][Len(docs[2])], words[1])

-----------------------------------------------------------------------------
(* C9 *)

\* C9 as stated: after training on the example document and finish(),
\* Unigram "x" has two Bigram entries, one of them "y" with count 2.
ExampleTwoBigramsOfX ==
    (docs = <<Example>> /\ pc = "finished") =>
        /\ Len(WordsOf(model.first_words["x"])) = 2
        /\ BiCnt(model.first_words, "x", "y") = 2

\* C9, amended: after training on the example document and finish(), Unigram
\* "x" (count 2) has exactly one Bigram entry, "y", with count 2.
ExampleOneBigramOfX ==
    (docs = <<Example>> /\ pc = "finished") =>
        /\ WordsOf(model.first_words["x"]) = <<"y">>
        /\ BiCnt(model.first_words, "x", "y") = 2
        /\ UniCnt(model.first_words, "x") = 2

\* The example document was consumed and the model finished.
ExampleTrainedWitness ==
    /\ docs = <<Example>> /\ pc = "finished"
    /\ HasBigram(model.first_words, "x", "y")

-----------------------------------------------------------------------------
(* C8 *)

\* A step of generate_word (the only step a made generator takes).
IsGenerateWord == gen.made /\ gen'.made

\* C8: in the model built from the example document the Trigram container of
\* Bigram ("x", "y") holds exactly "z" with count 1 and "w" with count 1 with
\* "z" at its head, and generate_word() with refresh_cnt > 0 and the window
\* (unset, unset, "x", "y") returns "z".
ExampleGreedyZ ==
    /\ [](docs = <<Example>> =>
            LET fw == model.first_words
            IN  /\ HasBigram(fw, "x", "y")
                /\ WordsOf(BigramNode(fw, "x", "y").child) = <<"z", "w">>
                /\ TriCnt(fw, "x", "y", "z") = 1
                /\ TriCnt(fw, "x", "y", "w") = 1)
    /\ [][(/\ IsGenerateWord
           /\ docs = <<Example>>
           /\ gen.refresh_cnt > 0
           /\ gen.prev_prev = "x" /\ gen.prev = "y"
           /\ gen.prev_3 = None /\ gen.prev_4 = None)
          => (ret' = "z" /\ gen'.prev = "z")]_vars

\* On the example's model the generator drew "x", took "y" by the bigrams of
\* "x", and has returned "z" on its third call.
ExampleGreedyWitness ==
    /\ docs = <<Example>>
    /\ gen.made /\ gen.refresh_cnt = gen.refresh_limit - 3
    /\ gen.prev_4 = None /\ gen.prev_3 = "x" /\ gen.prev_prev = "y" /\ gen.prev = "z"
    /\ ret = "z"

-----------------------------------------------------------------------------
(* C10 *)

\* C10: on a finalized model, generate_word() called with refresh_cnt > 0, both
\* w[t-2] = a and w[t-1] = b set, a Bigram b under Unigram a with a non-empty
\* Trigram container, and neither cycle condition holding for the word at the
\* head of that container, returns that word, whose trigram count is maximal
\* among the observed continuations of (a, b).
GreedyTrigramStep ==
    [][(/\ IsGenerateWord
        /\ gen.refresh_cnt > 0
        /\ gen.prev_prev # None /\ gen.prev # None
        /\ HasBigram(model.first_words, gen.prev_prev, gen.prev)
        /\ BigramNode(model.first_words, gen.prev_prev, gen.prev).child.head # nil
        /\ LET child == BigramNode(model.first_words, gen.prev_prev, gen.prev).child
           IN  ~cycle(gen, child.node[child.head].data))
       => LET child == BigramNode(model.first_words, gen.prev_prev, gen.prev).child
              candidate == child.node[child.head].data
          IN  /\ ret' = candidate
              /\ gen'.prev = candidate
              /\ gen'.refresh_cnt = gen.refresh_cnt - 1
              /\ TriCnt(model.first_words, gen.prev_prev, gen.prev, candidate) >= 1
              /\ \A third \in Words :
                    TriCnt(model.first_words, gen.prev_prev, gen.prev, candidate)
                        >= TriCnt(model.first_words, gen.prev_prev, gen.prev, third)]_vars

\* The generator has returned, with no random draw in the call, the head of a
\* Trigram container that holds a second entry of a smaller count, created
\* later.
GreedyTrigramWitness ==
    /\ gen.made /\ ret = gen.prev
    /\ gen.refresh_cnt < gen.refresh_limit - 1
    /\ gen.prev_3 # None
    /\ HasBigram(model.first_words, gen.prev_3, gen.prev_prev)
    /\ LET child == BigramNode(model.first_words, gen.prev_3, gen.prev_prev).child
       IN  /\ Len(child.node) = 2
           /\ child.head = 1
           /\ child.node[1].data = ret
           /\ child.node[2].cnt < child.node[1].cnt

-----------------------------------------------------------------------------
(* C11 *)

\* The window (a, b) of the generator has no Trigram to follow: b has no
\* Bigram entry under Unigram a, or that entry's Trigram container is empty.
NoTrigramOf(self, fw) ==
    \/ ~HasBigram(fw, self.prev_prev, self.prev)
    \/ BigramNode(fw, self.prev_prev, self.prev).child.head = nil

\* The candidate of the call c is the head of the Bigram container of the
\* Unigram of b = self.prev, found without a draw, if that container has an
\* entry, and else the word of a draw among the keys of the hash table.
BigramThenRandom(self, fw, c) ==
    IF fw[self.prev].head # nil
    THEN /\ c.candidate = fw[self.prev].node[fw[self.prev].head].data
         /\ Len(c.draws) = Bool(c.cycled)
    ELSE /\ c.draws # <<>>
         /\ c.candidate = c.draws[1]
         /\ c.candidate \in DOMAIN fw

\* C11: when generate_word() is called with refresh_cnt > 0 and a window
\* (a, b) such that b has no Bigram entry under Unigram a or that entry's
\* Trigram container is empty, the candidate is the head of the Bigram
\* container of Unigram b if that container is non-empty, and otherwise a
\* word drawn from the keys of the hash table; the same rule applies when
\* only w[t-1] is set.
FallbackChain ==
    [][(/\ IsGenerateWord
        /\ gen.refresh_cnt > 0
        /\ gen.prev # None
        /\ (gen.prev_prev = None \/ NoTrigramOf(gen, model.first_words)))
       => BigramThenRandom(gen, model.first_words, out'[1])]_vars

\* A call with a window (a, b) where b is no Bigram under a has returned,
\* with no draw, the head of the Bigram container of b, which holds a second
\* entry.
FallbackChainWitness ==
    /\ gen.made /\ out # <<>>
    /\ ~out[1].forced /\ out[1].draws = <<>>
    /\ gen.prev_3 # None /\ gen.prev_prev # None
    /\ ~HasBigram(model.first_words, gen.prev_3, gen.prev_prev)
    /\ LET list == model.first_words[gen.prev_prev]
       IN  /\ list.head # nil
           /\ Len(list.node) >= 2
           /\ ret = list.node[list.head].data

-----------------------------------------------------------------------------
(* C12 *)

\* C12: on a model trained on at least one complete document and finalized,
\* for every refresh_limit and every outcome of the draws, each call of
\* generate_word() returns a word (a key of the hash table) and none raises:
\* the lookups of w[t-2] and w[t-1] in the hash table always find a Unigram.
UnknownContextNeverFails ==
    (docs # <<>> /\ gen.made) =>
        /\ ~Raised(ret)
        /\ out # <<>> => ret \in DOMAIN model.first_words
        /\ \A word \in {gen.prev_4, gen.prev_3, gen.prev_prev, gen.prev} :
              word = None \/ word \in DOMAIN model.first_words

\* A call with a window (a, b) never seen in training (b is no Bigram under
\* a, and b has no Bigram of its own) has returned a word.
UnknownContextWitness ==
    /\ docs # <<>> /\ gen.made /\ out # <<>>
    /\ ~out[1].forced
    /\ gen.prev_3 # None /\ gen.prev_prev # None
    /\ ~HasBigram(model.first_words, gen.prev_3, gen.prev_prev)
    /\ model.first_words[gen.prev_prev].head = nil
    /\ ret \in DOMAIN model.first_words

-----------------------------------------------------------------------------
(* C13 *)

\* No call of the run so far replaced its candidate by the cycle test.
NoCycleDraw == \A k \in 1..Len(out) : ~out[k].cycled

\* No call of the run so far but the first (whose window is empty) drew at
\* random because the Bigram container of w[t-1] was empty.
NoFallbackDraw == \A k \in 2..Len(out) : ~Fallback(out[k])

\* The claim as stated: on a model with a vocabulary, with refresh_limit = R
\* and no cycle-suppression draw, the forced draws (the refresh_cnt <= 0 branch) of a fresh generator are on
\* the steps R+1, 2R+2, 3R+3, ... exactly.
RefreshEveryRPlusOne ==
    (docs # <<>> /\ gen.made /\ NoCycleDraw) =>
        \A k \in 1..Len(out) : out[k].forced <=> k % (gen.refresh_limit + 1) = 0

\* C13: on a model with a vocabulary, with refresh_limit = R, no cycle-suppression draw and no draw for an
\* empty Bigram container after the first call, the forced draws (the
\* refresh_cnt <= 0 branch) of a fresh generator are exactly on the steps
\* R+1, 2R+1, 3R+1, ... when R >= 1, and on every step when R = 0: every
\* draw leaves the counter at R - 1, so that the period is R, not R + 1.
RefreshEveryR ==
    (docs # <<>> /\ gen.made /\ NoCycleDraw /\ NoFallbackDraw) =>
        \A k \in 1..Len(out) :
            out[k].forced <=>
                \/ gen.refresh_limit = 0
                \/ k > gen.refresh_limit /\ (k - 1) % gen.refresh_limit = 0

\* A run with refresh_limit >= 2, no cycle-suppression draw and no draw for
\* an empty Bigram container, which has made its second forced draw.
RefreshWitness ==
    /\ gen.made /\ gen.refresh_limit >= 2
    /\ NoCycleDraw /\ NoFallbackDraw
    /\ Len(out) = 2 * gen.refresh_limit + 1
    /\ out[gen.refresh_limit + 1].forced
    /\ out[Len(out)].forced

-----------------------------------------------------------------------------
(* C14 *)

\* In the model the context (a, b) yields a and the context (b, a) yields b:
\* these are the heads of the two Trigram containers.
CycleModel(fw, a, b) ==
    /\ HasBigram(fw, a, b) /\ HasBigram(fw, b, a)
    /\ LET ab == BigramNode(fw, a, b).child
           ba == BigramNode(fw, b, a).child
       IN  /\ ab.head # nil /\ ab.node[ab.head].data = a
           /\ ba.head # nil /\ ba.node[ba.head].data = b

\* The six calls from the i-th on returned a, b, a, b, a, b.
SixFrom(i, a, b) ==
    /\ i + 5 <= Len(out)
    /\ \A j \in 0..5 : out[i + j].word = (IF j % 2 = 0 THEN a ELSE b)

\* The claim as stated: on such a model no run, whatever the draws, returns
\* a, b, a, b, a, b in six consecutive calls.
SixNeverReturned ==
    \A a \in DOMAIN model.first_words, b \in DOMAIN model.first_words :
        (a # b /\ CycleModel(model.first_words, a, b)) =>
            \A i \in 1..Len(out) : ~SixFrom(i, a, b)

\* C14: on a model where the context (a, b) yields a and the context (b, a)
\* yields b, six consecutive calls of generate_word() return a, b, a, b, a, b
\* only if the cycle test replaced the candidate of the fourth, of the fifth
\* and of the sixth of them and the word drawn in its place was the word of
\* the cycle each time: the greedy rules never return the sequence.
SixOnlyByDraws ==
    \A a \in DOMAIN model.first_words, b \in DOMAIN model.first_words :
        (a # b /\ CycleModel(model.first_words, a, b)) =>
            \A i \in 1..Len(out) :
                SixFrom(i, a, b) =>
                    \A j \in 3..5 : out[i + j].cycled /\ Random(out[i + j])

\* A run on such a model that went through the cycle by its greedy rules (the
\* second and the third word are the candidates found in the containers) and
\* then returned a, b, a, b, a, b, the last three words drawn.
SixByDrawsWitness ==
    \E a \in DOMAIN model.first_words, b \in DOMAIN model.first_words :
        /\ a # b /\ CycleModel(model.first_words, a, b)
        /\ SixFrom(1, a, b)
        /\ out[2].draws = <<>> /\ out[3].draws = <<>>
        /\ \A j \in 4..6 : out[j].cycled /\ out[j].candidate = out[j].word

-----------------------------------------------------------------------------
(* C15 *)

\* The call drew at random (by the counter, for want of a Bigram, on the
\* empty window or by the cycle test); else its word is a greedy one.
Drew(c) == c.draws # <<>>

\* C15: for refresh_limit = R >= 1, on a model with a vocabulary, every
\* window of R+1 consecutive calls of generate_word() holds at least one call
\* that drew at random: at most R words in a row come from the greedy rules.
RandomEveryRPlusOne ==
    (docs # <<>> /\ gen.made /\ gen.refresh_limit >= 1) =>
        \A i \in 1..Len(out) :
            i + gen.refresh_limit <= Len(out) =>
                \E j \in i..(i + gen.refresh_limit) : Drew(out[j])

\* A run with refresh_limit = MaxRefresh whose first call drew, whose next
\* calls, one less than the limit, were all greedy, and whose next call was
\* then forced to draw by the counter.
RandomEveryWitness ==
    /\ docs # <<>> /\ gen.made /\ gen.refresh_limit = MaxRefresh
    /\ Len(out) = MaxRefresh + 2
    /\ Drew(out[1])
    /\ \A j \in 2..MaxRefresh : ~Drew(out[j])
    /\ out[MaxRefresh + 1].forced

-----------------------------------------------------------------------------
(* C16 *)

\* C16: a call of generate_word() leaves the model as it was: the hash table
\* with its keys, every container's entry order, every word and every count
\* (and the model's own window); only the generator's window and its
\* refresh_cnt change.
GenerationKeepsModel ==
    [][IsGenerateWord =>
          /\ model' = model
          /\ gen'.refresh_limit = gen.refresh_limit
          /\ <<pc, finished, docs, words>>' = <<pc, finished, docs, words>>]_vars

\* After four calls and more, one of them by the trigram rule, the model is
\* still the one the build returned, with a container of two entries.
GenerationKeepsWitness ==
    /\ gen.made /\ gen.prev_4 # None
    /\ out # <<>> /\ out[1].draws = <<>>
    /\ HasBigram(model.first_words, gen.prev_3, gen.prev_prev)
    /\ BigramNode(model.first_words, gen.prev_3, gen.prev_prev).child.head # nil
    /\ \E list \in Containers(model.first_words) : Len(list.node) >= 2
    /\ model = build_model(docs)

-----------------------------------------------------------------------------
(* C17 *)

\* A call of generate_word() took the generator from self to after and
\* returned word as it would have with no other generator around: by its own
\* window and counter, the finalized model and two draws of its own.
AloneStep(self, after, word) ==
    \E r1 \in Draws(model.first_words), r2 \in Draws(model.first_words) :
        LET done == generate_word(self, model.first_words, r1, r2)
        IN  after = done.self /\ word = done.word

\* C17: with two generators of one finalized model, in whatever order their
\* generate_word() calls come, the model stays the one the build returned
\* and every call on a generator leaves the other generator's window,
\* refresh_cnt and last word alone and gives its own generator the window,
\* the refresh_cnt and the word that its own state and its own draws give on
\* that model: each generator runs as it does alone.
GeneratorsDoNotInterfere ==
    /\ [](model = build_model(docs))
    /\ [][/\ (gen.made /\ <<gen, ret>>' # <<gen, ret>>) =>
                /\ <<gen2, ret2>>' = <<gen2, ret2>>
                /\ AloneStep(gen, gen', ret')
          /\ (gen2.made /\ <<gen2, ret2>>' # <<gen2, ret2>>) =>
                /\ <<gen, ret>>' = <<gen, ret>>
                /\ AloneStep(gen2, gen2', ret2')]_vars

\* Two generators of different limits on a model with a vocabulary, each
\* after at least two calls, in different places.
TwoGeneratorsWitness ==
    /\ docs # <<>> /\ gen.made /\ gen2.made
    /\ gen.refresh_limit # gen2.refresh_limit
    /\ gen.prev_prev # None /\ gen2.prev_prev # None
    /\ gen.prev # gen2.prev
    /\ gen.refresh_cnt # gen2.refresh_cnt

-----------------------------------------------------------------------------
(* C18 *)

\* C18: on a model with no Unigram, output_generator(refresh_limit) followed
\* by generate_word() ends in an error: every call raises (IndexError, from
\* choice on the empty tuple of keys) and no word is ever returned or put in
\* the window.
EmptyVocabularyRaises ==
    (DOMAIN model.first_words = {} /\ gen.made) =>
        /\ out = <<>> => ret = None
        /\ out # <<>> => Raised(out[1].word) /\ ret = out[1].word
        /\ ret \notin Words
        /\ \A word \in {gen.prev_4, gen.prev_3, gen.prev_prev, gen.prev} : word = None

\* The first call on a generator of limit MaxRefresh of the empty model has
\* raised IndexError.
EmptyVocabularyWitness ==
    /\ DOMAIN model.first_words = {} /\ docs = <<>>
    /\ gen.made /\ gen.refresh_limit = MaxRefresh
    /\ out # <<>> /\ ~out[1].forced
    /\ ret = IndexError

-----------------------------------------------------------------------------
(* C19 *)

\* No two nodes of the list hold the same word.
UniqueKeys(list) ==
    \A i \in 1..Len(list.node), j \in 1..Len(list.node) :
        list.node[i].data = list.node[j].data => i = j

\* C19: after any sequence of start_input, consume_word, end_input and
\* finish calls, no word is in more than one entry of a Bigram container or
\* of a Trigram container.
KeyUniqueness ==
    \A list \in Containers(model.first_words) : UniqueKeys(list) /\ WellFormed(list)

\* Training went on after a finish(): a container of two entries, one of them
\* counted twice and not at the head, the model not finalized since.
KeyUniquenessWitness ==
    /\ finished >= 1
    /\ \E list \in Containers(model.first_words) :
          /\ Len(list.node) = 2
          /\ list.node[list.head].cnt = 1
          /\ \E i \in 1..2 : list.node[i].cnt = 2

-----------------------------------------------------------------------------
(* C20 *)

\* The claim's condition on a word c and the window before the call: c
\* completes a repetition of two words (a b a, then b) or of three
\* (a b c a, then b).
Repeats(self, c) ==
    \/ (c = self.prev_prev /\ self.prev = self.prev_3)
    \/ (c = self.prev_3 /\ self.prev = self.prev_4)

\* C20: in every call of generate_word(), when the candidate c, greedy or
\* drawn by the counter, meets (c = w[t-2] and w[t-1] = w[t-3]) or
\* (c = w[t-3] and w[t-1] = w[t-4]) on the window before the call, the word
\* returned is the word of a new draw among the keys and refresh_cnt is
\* refresh_limit - 1 after the call; so a returned word that completes such
\* a repetition of two or of three words was drawn, never found by the
\* greedy rules.
CycleRule ==
    [][IsGenerateWord =>
          LET c == out'[1]
          IN  /\ Repeats(gen, c.candidate) =>
                    /\ c.cycled
                    /\ c.draws # <<>> /\ ret' = c.draws[Len(c.draws)]
                    /\ Len(c.draws) = 1 + Bool(c.forced \/ Fallback(c))
                    /\ ret' \in DOMAIN model.first_words
                    /\ gen'.prev = ret'
                    /\ gen'.refresh_cnt = gen.refresh_limit - 1
              /\ ~Repeats(gen, c.candidate) => ~c.cycled /\ ret' = c.candidate
              /\ Repeats(gen, ret') => c.cycled /\ Random(c)]_vars

\* A call whose greedy candidate completed a repetition of three words
\* (a b c a, then b) has returned another word, drawn in its place.
CycleRuleWitness ==
    /\ gen.made /\ out # <<>>
    /\ out[1].cycled /\ ~out[1].forced /\ Len(out[1].draws) = 1
    /\ gen.prev_4 # None
    /\ out[1].candidate = gen.prev_4
    /\ out[1].candidate # gen.prev_3
    /\ ret # out[1].candidate
    /\ ret = out[1].draws[1]
    /\ gen.refresh_cnt = gen.refresh_limit - 1

-----------------------------------------------------------------------------
(* C21 *)

\* Every word stored in a Bigram entry or in a Trigram entry is a key of the
\* hash table.
Closed(fw) ==
    \A a \in DOMAIN fw :
        \A i \in 1..Len(fw[a].node) :
            /\ fw[a].node[i].data \in DOMAIN fw
            /\ \A j \in 1..Len(fw[a].node[i].child.node) :
                  fw[a].node[i].child.node[j].data \in DOMAIN fw

\* C21: after any sequence of complete documents (start_input, consume_word
\* any number of times, end_input), before and after finish(), every word
\* stored in a Bigram entry or a Trigram entry is a key of the hash table,
\* and so every word that generate_word() returns on such a model is a key;
\* the closure can fail only between start_input and its end_input.
VocabularyClosure ==
    /\ pc # "input" => Closed(model.first_words)
    /\ (gen.made /\ out # <<>> /\ ~Raised(ret)) => ret \in DOMAIN model.first_words

\* After two documents, the greedy rules have returned a word that is
\* nowhere but at the end of a document: a key only by end_input's count of
\* the last word.
VocabularyClosureWitness ==
    /\ gen.made /\ out # <<>> /\ out[1].draws = <<>>
    /\ Len(docs) = 2
    /\ ret \in DOMAIN model.first_words
    /\ \A d \in Range(docs) :
          /\ d[Len(d)] = ret
          /\ \A i \in 1..(Len(d) - 1) : d[i] # ret

-----------------------------------------------------------------------------
(* C22 *)

\* The sum of the counts of the entries of a container.
RECURSIVE SumNodes(_, _)
SumNodes(list, n) ==
    IF n = 0 THEN 0 ELSE list.node[iter(list)[n]].cnt + SumNodes(list, n - 1)

EntryCounts(list) == SumNodes(list, Len(iter(list)))

\* C22: after any sequence of training calls (and of finish() calls) the
\* count of every Unigram is at least the sum of the counts of its Bigram
\* entries and the count of every Bigram entry at least the sum of the counts
\* of its Trigram entries; after any sequence of complete documents the
\* Unigram counts add up to the number of tokens fed, 2 for each start_input
\* and 1 for each consume_word.
CountConservation ==
    /\ \A a \in DOMAIN model.first_words :
          /\ model.first_words[a].cnt >= EntryCounts(model.first_words[a])
          /\ \A i \in Range(iter(model.first_words[a])) :
                model.first_words[a].node[i].cnt
                    >= EntryCounts(model.first_words[a].node[i].child)
    /\ pc = "idle" => Counted = TotalLen(docs)

\* A complete document and a finish(): a Trigram was counted, the Unigram of
\* the last word holds more than its Bigram entries, a Bigram entry more
\* than its Trigram entries, and the Unigram counts add up to the tokens fed.
CountConservationWitness ==
    /\ pc = "idle" /\ docs # <<>> /\ finished >= 1
    /\ Counted = TotalLen(docs)
    /\ TriKeys(model.first_words) # {}
    /\ \E a \in DOMAIN model.first_words :
          /\ model.first_words[a].cnt > EntryCounts(model.first_words[a])
          /\ \E i \in Range(iter(model.first_words[a])) :
                model.first_words[a].node[i].cnt
                    > EntryCounts(model.first_words[a].node[i].child)

====
